---- MODULE Spec2Model ----
(***************************************************************************)
(* Quick Image Resizer: the App component's state (fileData, settings,     *)
(* history, future, resizedUrl, isResizing), its event handlers, the       *)
(* debounced render effect and the asynchronous completions (FileReader,   *)
(* image decode, render image load).                                       *)
(*                                                                         *)
(* Every handler runs to completion before the next event (single-threaded *)
(* event loop, state updates of one handler are batched), so one handler   *)
(* is one action; the effect that follows the re-render is part of it.     *)
(* The handlers are the interface of the core: they are callable in every  *)
(* state, the markup that binds them to controls is not modelled.          *)
(***************************************************************************)
EXTENDS Integers, Sequences, FiniteSets

VARIABLES
  fileData,    \* useState<ImageData | null>
  settings,    \* useState<ResizeSettings>
  history,     \* useState<ResizeSettings[]>, the undo stack
  future,      \* useState<ResizeSettings[]>, the redo stack
  resizedUrl,  \* useState<string | null>
  isResizing,  \* useState(false)
  timers,      \* live setTimeout(performResize, 150) timers, each with its closure
  loading,     \* render images whose load is outstanding (performResize, img.src set)
  uploads,     \* uploads whose FileReader / image decode is outstanding
  nextUpload,  \* identity of the next FileReader created by handleFileUpload
  nextRender,  \* identity of the next Image created by performResize
  events       \* user events handled so far

\* The state of the program.
app == <<fileData, settings, history, future, resizedUrl, isResizing,
         timers, loading, uploads, nextUpload, nextRender>>

vars == <<app, events>>

-----------------------------------------------------------------------------
\* Bounds of the model.
MaxEvents == 3    \* user events (handler calls) in one behaviour of Spec
MaxHist == 2      \* undo entries in one behaviour of SpecStore and SpecDims
MaxDim == 5       \* natural sizes and typed sizes of SpecDims are 1..MaxDim
BurstLen == 5     \* setWidth calls of the burst of SpecDebounce

\* Arguments of updateWidth / updateHeight: parseInt(e.target.value), which is
\* NaN or an integer.
DimInputs ==
  {[nan |-> TRUE, val |-> 0]} \cup {[nan |-> FALSE, val |-> n] : n \in {-1, 0, 1, 2}}

\* Values of the range input (min 1, max 100).
PercentInputs == {1, 100}

\* Files the user picks: name, MIME type as <<type, subtype>>, natural size.
Files ==
  { [name |-> "a.png", type |-> <<"image", "png">>, width |-> 4, height |-> 1],
    [name |-> "b.jpg", type |-> <<"image", "jpeg">>, width |-> 2, height |-> 3],
    [name |-> "c.txt", type |-> <<"text", "plain">>, width |-> 0, height |-> 0] }

\* null, for fileData and for resizedUrl.
NoImage ==
  [id |-> 0, originalUrl |-> "", name |-> "", type |-> <<"", "">>,
   width |-> 0, height |-> 0]
NoUrl == [src |-> "", type |-> <<"", "">>, width |-> 0, height |-> 0]

-----------------------------------------------------------------------------
\* Pure helpers.

Max(a, b) == IF a >= b THEN a ELSE b

\* Math.round(n / d) for n >= 0, d > 0: halves round up.
\* updateWidth computes Math.round((w / W) * H) in doubles; for the sizes used
\* here that equals the exact quotient rounded (it can differ by one from it
\* for larger sizes, e.g. W = 6, H = 15, w = 49).
MathRound(n, d) == (2 * n + d) \div (2 * d)

\* A faulty coercion: Math.max(0, w) is missing.
CoerceKeepsNegative(w) == IF w.nan THEN 0 ELSE w.val

\* isNaN(w) ? 0 : Math.max(0, w)
Coerce(w) == IF w.nan THEN 0 ELSE Max(0, w.val)

\* file.type.startsWith('image/')
IsImageType(type) == type[1] = "image"

DefaultSettings ==
  [width |-> 0, height |-> 0, maintainAspectRatio |-> TRUE,
   unit |-> "px", percentage |-> 50]

initialSettings(img) ==
  [width |-> img.width, height |-> img.height, maintainAspectRatio |-> TRUE,
   unit |-> "px", percentage |-> 50]

\* The ImageData built by img.onload of handleFileUpload for upload u.
NewImageData(u) ==
  [id |-> u.id, originalUrl |-> u.file.name, name |-> u.file.name,
   type |-> u.file.type, width |-> u.file.width, height |-> u.file.height]

\* Height that updateWidth derives under aspect lock, and width that
\* updateHeight derives (LockedHeightSwapped is a faulty variant: the ratio inverted).
LockedHeightSwapped(fd, newWidth) == MathRound(newWidth * fd.width, fd.height)
LockedHeight(fd, newWidth) == MathRound(newWidth * fd.height, fd.width)
LockedWidth(fd, newHeight) == MathRound(newHeight * fd.width, fd.height)

\* A faulty target size: the percentage is truncated instead of rounded.
TargetBeforeClampFloor(fd, s) ==
  IF s.unit = "percent"
    THEN [width |-> (fd.width * s.percentage) \div 100,
          height |-> (fd.height * s.percentage) \div 100]
    ELSE [width |-> s.width, height |-> s.height]

\* Target size of performResize before the clamp.
TargetBeforeClamp(fd, s) ==
  IF s.unit = "percent"
    THEN [width |-> MathRound(fd.width * s.percentage, 100),
          height |-> MathRound(fd.height * s.percentage, 100)]
    ELSE [width |-> s.width, height |-> s.height]

\* A faulty target size: the two Math.max(1, ...) are missing.
TargetDimensionsNoClamp(fd, s) == TargetBeforeClamp(fd, s)

\* Target size of performResize: canvas.width, canvas.height.
TargetDimensions(fd, s) ==
  LET t == TargetBeforeClamp(fd, s)
  IN [width |-> Max(1, t.width), height |-> Max(1, t.height)]

\* canvas.toDataURL(fileData.type, 0.9) of the image drawn at the target size.
DataUrl(fd, s) ==
  LET t == TargetDimensions(fd, s)
  IN [src |-> fd.originalUrl, type |-> fd.type,
      width |-> t.width, height |-> t.height]

\* getCurrentDimensions: the size shown to the user, as <<w, h>>.
getCurrentDimensions(fd, s) ==
  IF s.unit = "percent"
    THEN <<MathRound(fd.width * s.percentage, 100),
           MathRound(fd.height * s.percentage, 100)>>
    ELSE <<s.width, s.height>>

-----------------------------------------------------------------------------
\* The debounced render effect, deps [fileData, settings, performResize].

Closure(fd, s) == [fileData |-> fd, settings |-> s]

\* The timers the effect body starts for (fd, s).
EffectTimers(fd, s) ==
  IF fd = NoImage \/ s.width = 0 \/ s.height = 0 THEN {} ELSE {Closure(fd, s)}

\* The timers the cleanup of the effect that ran for (fd, s) clears.
CleanupTimers(fd, s) == {Closure(fd, s)}

\* A faulty effect: no cleanup is returned, so the previous timer stays live.
useEffectNoCleanup(fd, s) == timers \cup EffectTimers(fd, s)

\* Live timers after a re-render in which fileData or settings changed to
\* (fd, s): cleanup of the previous effect, then the effect body.
useEffect(fd, s) ==
  (timers \ CleanupTimers(fileData, settings)) \cup EffectTimers(fd, s)

-----------------------------------------------------------------------------
\* The state after the component mounts.

Init ==
  /\ fileData = NoImage
  /\ settings = DefaultSettings
  /\ history = <<>>
  /\ future = <<>>
  /\ resizedUrl = NoUrl
  /\ isResizing = FALSE
  /\ timers = {}
  /\ loading = {}
  /\ uploads = {}
  /\ nextUpload = 1
  /\ nextRender = 1
  /\ events = 0

Async == <<resizedUrl, isResizing, loading, uploads, nextUpload, nextRender>>

\* history[history.length - 1]
Last(seq) == seq[Len(seq)]

\* prev.slice(0, -1)
ButLast(seq) == SubSeq(seq, 1, Len(seq) - 1)

\* setSettings(s) with a new object s, and the effect of the re-render.
SetSettings(s) ==
  /\ settings' = s
  /\ timers' = useEffect(fileData, s)
  /\ UNCHANGED <<fileData, Async>>

-----------------------------------------------------------------------------
\* Settings Store: the handlers.

\* A faulty pushToHistory: the snapshot goes to the bottom of the undo stack.
pushToHistoryFront(prevSettings) ==
  /\ history' = <<prevSettings>> \o history
  /\ future' = <<>>

pushToHistory(prevSettings) ==
  /\ history' = Append(history, prevSettings)
  /\ future' = <<>>

\* The Settings Store as a value: current settings, undo stack, redo stack.
StoreOf(s, h, f) == [settings |-> s, history |-> h, future |-> f]
Store == StoreOf(settings, history, future)

\* A faulty undo: the settings it replaces are not kept for redo.
undoDropsCurrent(st) ==
  IF Len(st.history) = 0 THEN st
  ELSE StoreOf(Last(st.history), ButLast(st.history), st.future)

\* What handleUndo leaves of the store st.
undo(st) ==
  IF Len(st.history) = 0 THEN st
  ELSE StoreOf(Last(st.history), ButLast(st.history), <<st.settings>> \o st.future)

\* What handleRedo leaves of the store st.
\* A faulty redo: the entry it restores is not removed from the redo stack.
redoKeepsFuture(st) ==
  IF Len(st.future) = 0 THEN st
  ELSE StoreOf(Head(st.future), Append(st.history, st.settings), st.future)

redo(st) ==
  IF Len(st.future) = 0 THEN st
  ELSE StoreOf(Head(st.future), Append(st.history, st.settings), Tail(st.future))

\* setSettings(s) with s an object taken from a stack: the effect re-runs
\* unless s is the very object that is current (a snapshot pushed by a
\* gesture start and not replaced since); with equal values it may be either.
RestoreSettings(s) ==
  /\ settings' = s
  /\ \/ timers' = useEffect(fileData, s)
     \/ s = settings /\ timers' = timers
  /\ UNCHANGED <<fileData, Async>>

\* A faulty handleUndo: the early return for an empty undo stack is missing,
\* so the current settings still go onto the redo stack.
handleUndoNoGuard ==
  IF Len(history) = 0
    THEN /\ future' = <<settings>> \o future
         /\ UNCHANGED <<fileData, settings, history, timers, Async>>
    ELSE /\ future' = undo(Store).future
         /\ history' = undo(Store).history
         /\ RestoreSettings(undo(Store).settings)

handleUndo ==
  IF Len(history) = 0 THEN UNCHANGED app
  ELSE /\ future' = undo(Store).future
       /\ history' = undo(Store).history
       /\ RestoreSettings(undo(Store).settings)

handleRedo ==
  IF Len(future) = 0 THEN UNCHANGED app
  ELSE /\ history' = redo(Store).history
       /\ future' = redo(Store).future
       /\ RestoreSettings(redo(Store).settings)

updateWidth(w) ==
  IF fileData = NoImage THEN UNCHANGED app
  ELSE LET newWidth == Coerce(w)
           newHeight == IF settings.maintainAspectRatio /\ newWidth > 0
                          THEN LockedHeight(fileData, newWidth)
                          ELSE settings.height
       IN /\ pushToHistory(settings)
          /\ SetSettings([settings EXCEPT !.width = newWidth, !.height = newHeight])

updateHeight(h) ==
  IF fileData = NoImage THEN UNCHANGED app
  ELSE LET newHeight == Coerce(h)
           newWidth == IF settings.maintainAspectRatio /\ newHeight > 0
                         THEN LockedWidth(fileData, newHeight)
                         ELSE settings.width
       IN /\ pushToHistory(settings)
          /\ SetSettings([settings EXCEPT !.height = newHeight, !.width = newWidth])

\* A faulty handleUnitChange: the early return for an unchanged unit is
\* missing.
handleUnitChangeAlwaysPushes(unit) ==
  /\ pushToHistory(settings)
  /\ SetSettings([settings EXCEPT !.unit = unit])

handleUnitChange(unit) ==
  IF unit = settings.unit THEN UNCHANGED app
  ELSE /\ pushToHistory(settings)
       /\ SetSettings([settings EXCEPT !.unit = unit])

\* A faulty handleRatioChange: turning the lock on puts the size back to the
\* natural size of the image.
handleRatioChangeResetsSize(maintainAspectRatio) ==
  /\ pushToHistory(settings)
  /\ SetSettings(IF maintainAspectRatio /\ fileData # NoImage
                   THEN [settings EXCEPT !.maintainAspectRatio = TRUE,
                                         !.width = fileData.width,
                                         !.height = fileData.height]
                   ELSE [settings EXCEPT !.maintainAspectRatio = maintainAspectRatio])

handleRatioChange(maintainAspectRatio) ==
  /\ pushToHistory(settings)
  /\ SetSettings([settings EXCEPT !.maintainAspectRatio = maintainAspectRatio])

\* A faulty handlePercentageChange: every change of the slider pushes a
\* snapshot.
handlePercentageChangePushes(percentage) ==
  /\ pushToHistory(settings)
  /\ SetSettings([settings EXCEPT !.percentage = percentage])

handlePercentageChange(percentage) ==
  /\ SetSettings([settings EXCEPT !.percentage = percentage])
  /\ UNCHANGED <<history, future>>

\* onMouseDown / onTouchStart of the percentage slider.
sliderGestureStart ==
  /\ pushToHistory(settings)
  /\ UNCHANGED <<fileData, settings, timers, Async>>

\* A faulty reset: setResizedUrl(null) is missing.
resetKeepsUrl ==
  /\ fileData' = NoImage
  /\ history' = <<>>
  /\ future' = <<>>
  /\ settings' = DefaultSettings
  /\ timers' = useEffect(NoImage, DefaultSettings)
  /\ UNCHANGED <<resizedUrl, isResizing, loading, uploads, nextUpload, nextRender>>

reset ==
  /\ fileData' = NoImage
  /\ resizedUrl' = NoUrl
  /\ history' = <<>>
  /\ future' = <<>>
  /\ settings' = DefaultSettings
  /\ timers' = useEffect(NoImage, DefaultSettings)
  /\ UNCHANGED <<isResizing, loading, uploads, nextUpload, nextRender>>

-----------------------------------------------------------------------------
\* Image Ingest.

\* A faulty handleFileUpload: the check of file.type is missing.
handleFileUploadAnyType(file) ==
  /\ uploads' = uploads \cup {[id |-> nextUpload, file |-> file, stage |-> "reading"]}
  /\ nextUpload' = nextUpload + 1
  /\ UNCHANGED <<fileData, settings, history, future, resizedUrl, isResizing,
                 timers, loading, nextRender>>

handleFileUpload(file) ==
  IF ~IsImageType(file.type) THEN UNCHANGED app
  ELSE /\ uploads' = uploads \cup {[id |-> nextUpload, file |-> file, stage |-> "reading"]}
       /\ nextUpload' = nextUpload + 1
       /\ UNCHANGED <<fileData, settings, history, future, resizedUrl, isResizing,
                      timers, loading, nextRender>>

\* reader.onload: the data URL is read, the image is created and starts decoding.
readerOnload(u) ==
  /\ u.stage = "reading"
  /\ uploads' = (uploads \ {u}) \cup {[u EXCEPT !.stage = "decoding"]}
  /\ UNCHANGED <<fileData, settings, history, future, resizedUrl, isResizing,
                 timers, loading, nextUpload, nextRender>>

\* A faulty img.onload: the new size is merged into the previous settings, so
\* the previous unit, percentage and lock survive the upload.
uploadImgOnloadMergesSettings(u) ==
  /\ u.stage = "decoding"
  /\ fileData' = NewImageData(u)
  /\ settings' = [settings EXCEPT !.width = u.file.width, !.height = u.file.height]
  /\ history' = <<>>
  /\ future' = <<>>
  /\ timers' = useEffect(NewImageData(u),
                         [settings EXCEPT !.width = u.file.width,
                                          !.height = u.file.height])
  /\ uploads' = uploads \ {u}
  /\ UNCHANGED <<resizedUrl, isResizing, loading, nextUpload, nextRender>>

\* img.onload of handleFileUpload.
uploadImgOnload(u) ==
  /\ u.stage = "decoding"
  /\ fileData' = NewImageData(u)
  /\ settings' = initialSettings(NewImageData(u))
  /\ history' = <<>>
  /\ future' = <<>>
  /\ timers' = useEffect(NewImageData(u), initialSettings(NewImageData(u)))
  /\ uploads' = uploads \ {u}
  /\ UNCHANGED <<resizedUrl, isResizing, loading, nextUpload, nextRender>>

\* The read or the decode fails: neither reader.onerror nor img.onerror is set.
uploadFails(u) ==
  /\ uploads' = uploads \ {u}
  /\ UNCHANGED <<fileData, settings, history, future, resizedUrl, isResizing,
                 timers, loading, nextUpload, nextRender>>

-----------------------------------------------------------------------------
\* Render Pipeline.

\* performResize as closed over (c.fileData, c.settings), up to img.src = ...
performResize(c) ==
  IF c.fileData = NoImage
    THEN UNCHANGED <<isResizing, loading, nextRender>>
    ELSE /\ isResizing' = TRUE
         /\ loading' = loading \cup
              {[id |-> nextRender, fileData |-> c.fileData, settings |-> c.settings]}
         /\ nextRender' = nextRender + 1

\* A debounce timer expires after its 150 ms.
timerFires(t) ==
  /\ timers' = timers \ {t}
  /\ performResize(t)
  /\ UNCHANGED <<fileData, settings, history, future, resizedUrl, uploads, nextUpload>>

\* img.onload of performResize; ctx tells whether canvas.getContext('2d')
\* returned a context.
resizeImgOnload(r, ctx) ==
  /\ resizedUrl' = IF ctx THEN DataUrl(r.fileData, r.settings) ELSE resizedUrl
  /\ isResizing' = FALSE
  /\ loading' = loading \ {r}
  /\ UNCHANGED <<fileData, settings, history, future, timers, uploads,
                 nextUpload, nextRender>>

\* The render image fails to load: img.onerror is not set.
resizeImgFails(r) ==
  /\ loading' = loading \ {r}
  /\ UNCHANGED <<fileData, settings, history, future, resizedUrl, isResizing,
                 timers, uploads, nextUpload, nextRender>>

-----------------------------------------------------------------------------
\* A user event: the handler A runs, within the bound on events.
User(A) == events < MaxEvents /\ A /\ events' = events + 1

\* A completion of asynchronous work (timer, FileReader, image load).
Completion(A) == A /\ UNCHANGED events

Next ==
  \/ User(handleUndo)
  \/ User(handleRedo)
  \/ \E w \in DimInputs : User(updateWidth(w))
  \/ \E h \in DimInputs : User(updateHeight(h))
  \/ \E unit \in {"px", "percent"} : User(handleUnitChange(unit))
  \/ \E b \in BOOLEAN : User(handleRatioChange(b))
  \/ \E p \in PercentInputs : User(handlePercentageChange(p))
  \/ User(sliderGestureStart)
  \/ User(reset)
  \/ \E file \in Files : User(handleFileUpload(file))
  \/ \E u \in uploads : Completion(readerOnload(u))
  \/ \E u \in uploads : Completion(uploadImgOnload(u))
  \/ \E u \in uploads : Completion(uploadFails(u))
  \/ \E t \in timers : Completion(timerFires(t))
  \/ \E r \in loading, ctx \in BOOLEAN : Completion(resizeImgOnload(r, ctx))
  \/ \E r \in loading : Completion(resizeImgFails(r))

Spec == Init /\ [][Next]_vars

-----------------------------------------------------------------------------
\* The Settings Store on its own: the state after a first upload has been
\* decoded (or after mount), and the handlers of the store, with the undo
\* stack bounded instead of the number of events.

InitStore ==
  /\ \E file \in Files :
       LET u == [id |-> 1, file |-> file, stage |-> "decoding"] IN
       IF IsImageType(file.type)
         THEN /\ fileData = NewImageData(u)
              /\ settings = initialSettings(NewImageData(u))
              /\ timers = EffectTimers(NewImageData(u), initialSettings(NewImageData(u)))
              /\ nextUpload = 2
         ELSE /\ fileData = NoImage
              /\ settings = DefaultSettings
              /\ timers = {}
              /\ nextUpload = 1
  /\ history = <<>>
  /\ future = <<>>
  /\ resizedUrl = NoUrl
  /\ isResizing = FALSE
  /\ loading = {}
  /\ uploads = {}
  /\ nextRender = 1
  /\ events = 0

CanPush == Len(history) < MaxHist

\* A handler call in the store specifications.
Handler(A) == A /\ UNCHANGED events

\* A handler that pushes a snapshot, within the bound on the undo stack.
Pushing(A) == CanPush /\ A /\ UNCHANGED events

NextStore ==
  \/ Handler(handleUndo)
  \/ Handler(handleRedo)
  \/ \E w \in DimInputs : Pushing(updateWidth(w))
  \/ \E h \in DimInputs : Pushing(updateHeight(h))
  \/ \E unit \in {"px", "percent"} : Pushing(handleUnitChange(unit))
  \/ \E b \in BOOLEAN : Pushing(handleRatioChange(b))
  \/ \E p \in PercentInputs : Handler(handlePercentageChange(p))
  \/ Pushing(sliderGestureStart)

SpecStore == InitStore /\ [][NextStore]_vars

-----------------------------------------------------------------------------
\* The aspect-ratio arithmetic over many sizes: an image of any natural size
\* W x H in 1..MaxDim is loaded, and widths and heights are typed.

UploadOf(file) == [id |-> 1, file |-> file, stage |-> "decoding"]

\* The state after the first upload, of file, has been decoded.
Loaded(file) ==
  /\ fileData = NewImageData(UploadOf(file))
  /\ settings = initialSettings(NewImageData(UploadOf(file)))
  /\ timers = EffectTimers(NewImageData(UploadOf(file)),
                           initialSettings(NewImageData(UploadOf(file))))
  /\ history = <<>>
  /\ future = <<>>
  /\ resizedUrl = NoUrl
  /\ isResizing = FALSE
  /\ loading = {}
  /\ uploads = {}
  /\ nextUpload = 2
  /\ nextRender = 1
  /\ events = 0

SizedFiles ==
  {[name |-> "img.png", type |-> <<"image", "png">>, width |-> W, height |-> H] :
     W \in 1..MaxDim, H \in 1..MaxDim}

SizeInputs ==
  {[nan |-> TRUE, val |-> 0]} \cup {[nan |-> FALSE, val |-> n] : n \in 0..MaxDim}

InitDims == \E file \in SizedFiles : Loaded(file)

NextDims ==
  \/ \E w \in SizeInputs : Pushing(updateWidth(w))
  \/ \E h \in SizeInputs : Pushing(updateHeight(h))
  \/ \E b \in BOOLEAN : Pushing(handleRatioChange(b))

SpecDims == InitDims /\ [][NextDims]_vars

-----------------------------------------------------------------------------
\* The debounce burst: an image has just been decoded, setWidth is called
\* BurstLen times with positive values, each call less than 150 ms after the
\* previous one (so no timer expires before the last call), and then the
\* timers and the renders run.

PositiveInputs == {w \in DimInputs : ~w.nan /\ w.val > 0}

InitDebounce == \E file \in {f \in Files : IsImageType(f.type)} : Loaded(file)

NextDebounce ==
  \/ \E w \in PositiveInputs : Len(history) < BurstLen /\ Handler(updateWidth(w))
  \/ \E t \in timers : Len(history) = BurstLen /\ Completion(timerFires(t))
  \/ \E r \in loading, ctx \in BOOLEAN : Completion(resizeImgOnload(r, ctx))
  \/ \E r \in loading : Completion(resizeImgFails(r))

SpecDebounce == InitDebounce /\ [][NextDebounce]_vars

-----------------------------------------------------------------------------
\* The render target over many sizes and percentages: an image of any natural
\* size W x H in 1..MaxDim has been loaded, the unit has been switched to
\* percent and the slider moved to any of its values; then the timer and the
\* render run.

\* The state after the first upload, of file, has been decoded, then
\* handleUnitChange('percent') and handlePercentageChange(p) have run.
PercentMode(file, p) ==
  LET fd == NewImageData(UploadOf(file))
      s == [initialSettings(fd) EXCEPT !.unit = "percent", !.percentage = p]
  IN /\ fileData = fd
     /\ settings = s
     /\ timers = EffectTimers(fd, s)
     /\ history = <<initialSettings(fd)>>
     /\ future = <<>>
     /\ resizedUrl = NoUrl
     /\ isResizing = FALSE
     /\ loading = {}
     /\ uploads = {}
     /\ nextUpload = 2
     /\ nextRender = 1
     /\ events = 2

InitTarget == \E file \in SizedFiles, p \in 1..100 : PercentMode(file, p)

NextTarget ==
  \/ \E t \in timers : Completion(timerFires(t))
  \/ \E r \in loading, ctx \in BOOLEAN : Completion(resizeImgOnload(r, ctx))
  \/ \E r \in loading : Completion(resizeImgFails(r))

SpecTarget == InitTarget /\ [][NextTarget]_vars

-----------------------------------------------------------------------------
\* A session of one user: a 1000 x 500 image is uploaded; once it is decoded
\* the unit is switched to percent and the slider is dragged to 25 (or set
\* to 25 from the keyboard, with no gesture start); the unit is
\* switched back to px, the width is set to 400, undo is clicked once and
\* then reset.  The FileReader, the decode, the timers and the renders
\* complete at any moment in between.  events counts the steps taken.

ScenarioFile ==
  [name |-> "photo.png", type |-> <<"image", "png">>,
   width |-> 1000, height |-> 500]

\* Step n of the session: the handler A.
Step(n, A) == events = n /\ A /\ events' = n + 1

NextScenario ==
  \/ Step(0, handleFileUpload(ScenarioFile))
  \/ fileData # NoImage /\ Step(1, handleUnitChange("percent"))
  \/ Step(2, sliderGestureStart)
  \/ Step(3, handlePercentageChange(25))
  \/ events = 2 /\ handlePercentageChange(25) /\ events' = 4
  \/ Step(4, handleUnitChange("px"))
  \/ Step(5, updateWidth([nan |-> FALSE, val |-> 400]))
  \/ Step(6, handleUndo)
  \/ Step(7, reset)
  \/ \E u \in uploads : Completion(readerOnload(u))
  \/ \E u \in uploads : Completion(uploadImgOnload(u))
  \/ \E t \in timers : Completion(timerFires(t))
  \/ \E r \in loading, ctx \in BOOLEAN : Completion(resizeImgOnload(r, ctx))
  \/ \E r \in loading : Completion(resizeImgFails(r))

SpecScenario == Init /\ [][NextScenario]_vars

-----------------------------------------------------------------------------
\* Reset between two uploads: an image file is picked, reset is called (before or
\* after the file is read and decoded, rendered or not), and then a second
\* file is picked.  events counts the steps taken, so the upload with id 1 is
\* the one initiated before the reset.

NextReset ==
  \/ \E file \in {f \in Files : IsImageType(f.type)} :
       Step(0, handleFileUpload(file))
  \/ Step(1, reset)
  \/ \E file \in Files : Step(2, handleFileUpload(file))
  \/ \E u \in uploads : Completion(readerOnload(u))
  \/ \E u \in uploads : Completion(uploadImgOnload(u))
  \/ \E u \in uploads : Completion(uploadFails(u))
  \/ \E t \in timers : Completion(timerFires(t))
  \/ \E r \in loading, ctx \in BOOLEAN : Completion(resizeImgOnload(r, ctx))
  \/ \E r \in loading : Completion(resizeImgFails(r))

SpecReset == Init /\ [][NextReset]_vars

-----------------------------------------------------------------------------
\* The claims.

\* A render whose closure is no longer the current image and settings.
IsStale(r) == r.fileData # fileData \/ r.settings # settings

\* C1: latest-wins render: when a started render completes after the image or
\* the settings have changed, its result is not published (resizedUrl is not
\* set from it).
C1_StaleRenderNotPublished ==
  [][\A r \in loading, ctx \in BOOLEAN :
       (resizeImgOnload(r, ctx) /\ IsStale(r)) => resizedUrl' = resizedUrl]_vars

\* C2: stale ingest is discarded: when the decode of an upload completes after
\* a later-initiated upload has been installed, the image, the settings and
\* the history stacks stay as they are.
C2_StaleIngestDiscarded ==
  [][\A u \in uploads :
       (uploadImgOnload(u) /\ fileData # NoImage /\ fileData.id > u.id)
         => UNCHANGED <<fileData, settings, history, future>>]_vars

\* The mutations that push a snapshot: setWidth, setHeight, setAspectLock and
\* setUnit to a different unit, on a loaded image.
PushingMutation ==
  /\ fileData # NoImage
  /\ \/ \E w \in DimInputs : updateWidth(w)
     \/ \E h \in DimInputs : updateHeight(h)
     \/ \E unit \in {"px", "percent"} : unit # settings.unit /\ handleUnitChange(unit)
     \/ \E b \in BOOLEAN : handleRatioChange(b)

\* setPercentage on a loaded image.
PercentageMutation ==
  /\ fileData # NoImage
  /\ \E p \in PercentInputs : handlePercentageChange(p)

\* C3 as stated: after any settings mutation, setPercentage included, one undo
\* makes the settings equal to those before the mutation.
C3_UndoRestoresPrevious ==
  [][(PushingMutation \/ PercentageMutation) => undo(Store').settings = settings]_vars

\* C3 as amended: after setWidth, setHeight, setAspectLock or setUnit to a
\* different unit on a loaded image, one undo makes the settings equal, field
\* by field, to those before the mutation; and undo with a non-empty past
\* installs what undo computes.
C3_UndoRestoresBeforePush ==
  [][/\ PushingMutation => undo(Store').settings = settings
     /\ (handleUndo /\ Len(history) > 0) => settings' = undo(Store).settings]_vars

\* C3 witness: a pushing mutation changed the settings of a loaded image and
\* the snapshot on top of the undo stack differs from them.
C3_Witness ==
  /\ fileData # NoImage
  /\ Len(history) >= 1
  /\ Last(history).width # settings.width
  /\ undo(Store).settings = Last(history)

RECURSIVE undoTimes(_, _)
undoTimes(k, st) == IF k = 0 THEN st ELSE undoTimes(k - 1, undo(st))

RECURSIVE redoTimes(_, _)
redoTimes(k, st) == IF k = 0 THEN st ELSE redoTimes(k - 1, redo(st))

\* C4: undo/redo round trip: with at least k entries in past, k undos followed
\* by k redos give back the same settings, past and future.
C4_UndoRedoRoundTrip ==
  \A k \in 1..Len(history) : redoTimes(k, undoTimes(k, Store)) = Store

\* C4 witness: two different snapshots in past, a redo entry below them, so
\* that the round trip of k = 2 moves three different settings.
C4_Witness ==
  /\ Len(history) = 2
  /\ history[1] # history[2]
  /\ history[2] # settings
  /\ undoTimes(2, Store).settings = history[1]
  /\ Len(undoTimes(2, Store).future) = 2

\* C5: redo is cleared by any new mutation: after a mutation that changes the
\* settings, setPercentage included, the future stack is empty.
C5_MutationClearsFuture ==
  [][((PushingMutation \/ PercentageMutation) /\ settings' # settings)
       => future' = <<>>]_vars

\* C6: debounce coalescing: once the burst of BurstLen setWidth calls with
\* positive values is over and no timer is pending, exactly one render has
\* been invoked, and it uses the final width and the height derived from it.
C6_BurstRendersOnce ==
  (Len(history) = BurstLen /\ timers = {})
    => /\ nextRender = 2
       /\ \A r \in loading : r.settings = settings

\* C7: the progress flag cannot get stuck: when no render is outstanding
\* (every started render has ended, with or without output), isResizing is
\* false.
C7_FlagClearedWhenIdle == (loading = {}) => ~isResizing

\* round(n / d), halves up, for n >= 0 and d > 0.
Round(n, d) == CHOOSE q \in 0..(n + 1) : 2 * d * q - 2 * n > -d /\ 2 * d * q - 2 * n <= d

Abs(x) == IF x >= 0 THEN x ELSE -x

\* C8: aspect-ratio rule: with an image of positive natural size W x H loaded
\* and aspect lock on, after setWidth(w), w > 0, the stored height is within 1
\* of round(w * H / W), and after setHeight(h), h > 0, the stored width is
\* within 1 of round(h * W / H), whatever the settings before.
C8_AspectRule ==
  [][/\ \A w \in SizeInputs :
          (settings.maintainAspectRatio /\ Coerce(w) > 0 /\ updateWidth(w))
            => /\ settings'.width = Coerce(w)
               /\ Abs(settings'.height
                      - Round(Coerce(w) * fileData.height, fileData.width)) <= 1
     /\ \A h \in SizeInputs :
          (settings.maintainAspectRatio /\ Coerce(h) > 0 /\ updateHeight(h))
            => /\ settings'.height = Coerce(h)
               /\ Abs(settings'.width
                      - Round(Coerce(h) * fileData.width, fileData.height)) <= 1]_vars

\* C8 witness: on an image that is not square, with the lock on, a width other
\* than the natural one is stored together with the height derived from it,
\* which differs from the height before.
C8_Witness ==
  /\ fileData.width # fileData.height
  /\ settings.maintainAspectRatio
  /\ Len(history) >= 1
  /\ settings.width > 0
  /\ settings.width # fileData.width
  /\ settings.width # Last(history).width
  /\ settings.height # Last(history).height
  /\ settings.height = Round(settings.width * fileData.height, fileData.width)

\* C9: operations on a missing image are no-ops: while no image is loaded,
\* setWidth, setHeight, setUnit, setAspectLock, setPercentage, undo and redo
\* leave the settings, past and future unchanged.
C9_NoImageNoOp ==
  [][(/\ fileData = NoImage
      /\ \/ \E w \in DimInputs : updateWidth(w)
         \/ \E h \in DimInputs : updateHeight(h)
         \/ \E unit \in {"px", "percent"} : handleUnitChange(unit)
         \/ \E b \in BOOLEAN : handleRatioChange(b)
         \/ \E p \in PercentInputs : handlePercentageChange(p)
         \/ handleUndo
         \/ handleRedo)
       => UNCHANGED <<settings, history, future>>]_vars

\* C10: reset returns the core to its initial state: after reset (in
\* particular after every step that clears the image) the image is null, the
\* render output is null, past and future are empty and the settings are
\* width 0, height 0, lock on, unit pixel, percentage 50.
C10_ResetRestoresInitial ==
  [][(reset \/ (fileData # NoImage /\ fileData' = NoImage))
       => /\ fileData' = NoImage
          /\ resizedUrl' = NoUrl
          /\ history' = <<>>
          /\ future' = <<>>
          /\ settings' = [width |-> 0, height |-> 0, maintainAspectRatio |-> TRUE,
                          unit |-> "px", percentage |-> 50]]_vars

\* C10 witness: a render had been started for a loaded image (so an image was
\* there and has been cleared since) and the core is as reset leaves it.
C10_Witness ==
  /\ nextRender > 1
  /\ fileData = NoImage
  /\ resizedUrl = NoUrl
  /\ settings = DefaultSettings
  /\ history = <<>>
  /\ future = <<>>

\* C11: a successful decode seeds the store: the image becomes the decoded
\* one, the settings become its natural width and height with lock on, unit
\* pixel and percentage 50 whatever they were before, and past and future are
\* empty.
C11_IngestSeedsStore ==
  [][\A u \in uploads :
       uploadImgOnload(u)
         => /\ fileData' # NoImage
            /\ fileData'.name = u.file.name
            /\ fileData'.width = u.file.width
            /\ fileData'.height = u.file.height
            /\ settings' = [width |-> u.file.width, height |-> u.file.height,
                            maintainAspectRatio |-> TRUE, unit |-> "px",
                            percentage |-> 50]
            /\ history' = <<>>
            /\ future' = <<>>]_vars

\* C11 witness: a second upload has been decoded after a user event, and the
\* store is as the decode seeds it.
C11_Witness ==
  /\ fileData # NoImage
  /\ fileData.id = 2
  /\ events = MaxEvents
  /\ settings = [width |-> fileData.width, height |-> fileData.height,
                 maintainAspectRatio |-> TRUE, unit |-> "px", percentage |-> 50]
  /\ history = <<>>
  /\ future = <<>>

\* C12: a failed ingest changes no state: an upload of a file whose type does
\* not begin with image/ starts no read and leaves the image, the settings,
\* past, future, the render output and isResizing as they were, and so does
\* an upload whose read or decode fails.
C12_FailedIngestNoChange ==
  [][/\ \A file \in Files :
          (~IsImageType(file.type) /\ handleFileUpload(file))
            => /\ UNCHANGED <<fileData, settings, history, future,
                              resizedUrl, isResizing>>
               /\ uploads' = uploads
     /\ \A u \in uploads :
          uploadFails(u)
            => UNCHANGED <<fileData, settings, history, future,
                           resizedUrl, isResizing>>]_vars

\* C12 witness: a second upload was started and has failed, and the first
\* image and its settings are still there.
C12_Witness ==
  /\ nextUpload = 3
  /\ uploads = {}
  /\ fileData # NoImage
  /\ fileData.id = 1
  /\ settings = initialSettings(fileData)

\* The domain of ResizeSettings.
SettingsDomain(s) ==
  /\ s.width \in Nat
  /\ s.height \in Nat
  /\ s.percentage \in 1..100

\* C13: the settings stay in their domain: in every reachable state the stored
\* width and height are integers >= 0 and the stored percentage is an integer
\* in 1..100; setWidth and setHeight called with NaN or a negative number
\* store 0.
C13_SettingsDomain ==
  [][/\ SettingsDomain(settings)
     /\ SettingsDomain(settings')
     /\ \A w \in DimInputs :
          (fileData # NoImage /\ (w.nan \/ w.val < 0) /\ updateWidth(w))
            => settings'.width = 0
     /\ \A h \in DimInputs :
          (fileData # NoImage /\ (h.nan \/ h.val < 0) /\ updateHeight(h))
            => settings'.height = 0]_vars

\* C13 witness: with an image loaded, a setWidth has stored 0 over a positive
\* width.
C13_Witness ==
  /\ fileData # NoImage
  /\ Len(history) >= 1
  /\ Last(history).width > 0
  /\ settings.width = 0
  /\ settings.height = Last(history).height
  /\ SettingsDomain(settings)

\* C14: a slider gesture pushes history once: the gesture start pushes exactly
\* one snapshot, the settings at that moment, and changes no setting; each
\* setPercentage that follows pushes nothing, so the past stays as the gesture
\* start left it and one undo still restores the settings (and so the
\* percentage) from before the gesture.
C14_GesturePushesOnce ==
  [][/\ sliderGestureStart
          => /\ history' = Append(history, settings)
             /\ settings' = settings
             /\ undo(Store').settings = settings
     /\ \A p \in PercentInputs :
          handlePercentageChange(p)
            => /\ history' = history
               /\ (Len(history) > 0
                     => undo(Store').settings = undo(Store).settings)]_vars

\* C14 witness: a gesture is under way: the top of past is the current
\* settings but for the percentage, which the slider has changed, and one undo
\* gives the percentage from before.
C14_Witness ==
  /\ Len(history) >= 1
  /\ Last(history).percentage # settings.percentage
  /\ settings = [Last(history) EXCEPT !.percentage = settings.percentage]
  /\ undo(Store).settings.percentage = Last(history).percentage

\* C15: setUnit with the current unit changes neither the settings nor past
\* nor future; with the other unit it pushes the prior settings onto past,
\* clears future and changes the unit field only (so width, height,
\* percentage and lock are the same after switching and switching back).
C15_SetUnit ==
  [][\A unit \in {"px", "percent"} :
       handleUnitChange(unit)
         => IF unit = settings.unit
              THEN UNCHANGED <<settings, history, future>>
              ELSE /\ history' = Append(history, settings)
                   /\ future' = <<>>
                   /\ settings'.unit = unit
                   /\ settings'.width = settings.width
                   /\ settings'.height = settings.height
                   /\ settings'.percentage = settings.percentage
                   /\ settings'.maintainAspectRatio
                        = settings.maintainAspectRatio]_vars

\* C15 witness: the unit was switched to percent and back: both switches are
\* on past and the settings are again those from before the first switch.
C15_Witness ==
  /\ Len(history) = 2
  /\ history[1].unit = "px"
  /\ history[2] = [history[1] EXCEPT !.unit = "percent"]
  /\ settings = history[1]
  /\ future = <<>>

\* C16 as stated: a render in percent mode of an image W x H at percentage p
\* has the target (round(W*p/100), round(H*p/100)).
C16_PercentTargetUnclamped ==
  [][\A r \in loading :
       (resizeImgOnload(r, TRUE) /\ r.settings.unit = "percent")
         => /\ resizedUrl'.width
                 = Round(r.fileData.width * r.settings.percentage, 100)
            /\ resizedUrl'.height
                 = Round(r.fileData.height * r.settings.percentage, 100)]_vars

\* C16: a render in percent mode of an image W x H at percentage p has the
\* target (max(1, round(W*p/100)), max(1, round(H*p/100))); at p = 100 the
\* target is exactly W x H.
C16_PercentTarget ==
  [][\A r \in loading :
       (resizeImgOnload(r, TRUE) /\ r.settings.unit = "percent")
         => /\ resizedUrl'.width
                 = Max(1, Round(r.fileData.width * r.settings.percentage, 100))
            /\ resizedUrl'.height
                 = Max(1, Round(r.fileData.height * r.settings.percentage, 100))
            /\ r.settings.percentage = 100
                 => /\ resizedUrl'.width = r.fileData.width
                    /\ resizedUrl'.height = r.fileData.height]_vars

\* C16 witness: the render of the current image at the current percentage has
\* been published, and its width is a quotient that was rounded up, above 1
\* and below the natural width.
C16_Witness ==
  /\ fileData # NoImage
  /\ settings.unit = "percent"
  /\ timers = {}
  /\ loading = {}
  /\ resizedUrl # NoUrl
  /\ resizedUrl.width = Round(fileData.width * settings.percentage, 100)
  /\ resizedUrl.height = Max(1, Round(fileData.height * settings.percentage, 100))
  /\ resizedUrl.width * 100 > fileData.width * settings.percentage
  /\ resizedUrl.width > 1
  /\ resizedUrl.width < fileData.width

\* C17: the render is never skipped: whenever the image or the settings
\* change and an image is loaded, a render of the new image and settings is
\* scheduled, also when a stored width or height is 0 (the render then
\* clamps the target to at least 1 x 1).
C17_RenderNeverSkipped ==
  [][(/\ fileData' # NoImage
      /\ <<fileData', settings'>> # <<fileData, settings>>)
       => Closure(fileData', settings') \in timers']_vars

\* The settings of percent mode at percentage p with the stored size as the
\* upload of fd seeds it.
SeededPercent(fd, p) ==
  [initialSettings(fd) EXCEPT !.unit = "percent", !.percentage = p]

\* C18: in percent mode the stored width and height do not matter: when the
\* image or the settings change to percent-mode settings, a render is
\* scheduled exactly if one is scheduled for the same image and percentage
\* with the stored size of the upload, and the target size is the same.
C18_PercentIgnoresStoredSize ==
  [][(/\ fileData' # NoImage
      /\ settings'.unit = "percent"
      /\ <<fileData', settings'>> # <<fileData, settings>>)
       => /\ (Closure(fileData', settings') \in timers')
               = (EffectTimers(fileData', SeededPercent(fileData', settings'.percentage))
                    # {})
          /\ TargetDimensions(fileData', settings')
               = TargetDimensions(fileData',
                                  SeededPercent(fileData', settings'.percentage))]_vars

\* C19: the session of SpecScenario: once the 1000 x 500 image is decoded the
\* settings are 1000 / 500 / lock on / px / 50; at percentage 25 in percent
\* mode the displayed size is 250 x 125; setWidth(400) back in pixel mode
\* gives height 200; one undo gives width 1000, height 500, unit px, lock on;
\* reset gives the default settings and no image.
C19_Scenario ==
  /\ (events = 1 /\ fileData # NoImage)
       => settings = [width |-> 1000, height |-> 500, maintainAspectRatio |-> TRUE,
                      unit |-> "px", percentage |-> 50]
  /\ events = 4
       => /\ settings.unit = "percent"
          /\ settings.percentage = 25
          /\ getCurrentDimensions(fileData, settings) = <<250, 125>>
  /\ events = 6
       => /\ settings.unit = "px"
          /\ settings.width = 400
          /\ settings.height = 200
  /\ events = 7
       => /\ settings.width = 1000
          /\ settings.height = 500
          /\ settings.unit = "px"
          /\ settings.maintainAspectRatio
  /\ events = 8
       => /\ fileData = NoImage
          /\ settings = [width |-> 0, height |-> 0, maintainAspectRatio |-> TRUE,
                         unit |-> "px", percentage |-> 50]

\* C19 witness: the session has reached the undo: the width 400 is on the
\* redo stack and the size is 1000 x 500 again.
C19_Witness ==
  /\ events = 7
  /\ Len(future) = 1
  /\ Head(future).width = 400
  /\ Head(future).height = 200
  /\ settings.width = 1000
  /\ settings.height = 500

\* C20: undo with an empty past and redo with an empty future change nothing:
\* the settings, past, future, the image and the render output stay as they
\* were, and no render is scheduled.
C20_EmptyUndoRedoNoOp ==
  [][/\ (Len(history) = 0 /\ handleUndo)
          => UNCHANGED <<settings, history, future, fileData, resizedUrl,
                         timers, loading>>
     /\ (Len(future) = 0 /\ handleRedo)
          => UNCHANGED <<settings, history, future, fileData, resizedUrl,
                         timers, loading>>]_vars

\* C20 witness: an image is loaded and rendered, both stacks are empty and no
\* render is pending or in flight, after a user event that followed the
\* upload and left all this so.
C20_Witness ==
  /\ fileData # NoImage
  /\ settings = initialSettings(fileData)
  /\ resizedUrl = DataUrl(fileData, settings)
  /\ history = <<>>
  /\ future = <<>>
  /\ timers = {}
  /\ loading = {}
  /\ uploads = {}
  /\ nextUpload = 2
  /\ events = 2

\* C21: quiescent consistency: when an image is loaded, no timer is pending,
\* no render is in flight and an output is published, the output is the one
\* computed from the current image and the current settings.
C21_QuiescentConsistency ==
  (/\ fileData # NoImage
   /\ timers = {}
   /\ loading = {}
   /\ resizedUrl # NoUrl)
    => resizedUrl = DataUrl(fileData, settings)

\* C22: isResizing tracks outstanding work: whenever a render has started and
\* its image has neither loaded nor failed yet, isResizing is true.
C22_FlagSetWhileRendering == (loading # {}) => isResizing

\* C23: single debounce timer: in every reachable state at most one debounce
\* timer is live, a live timer is the one started for the current image and
\* settings (the timer of every earlier value has been cancelled), and while
\* no image is loaded, as after reset, no timer is live.
C23_SingleTimer ==
  /\ Cardinality(timers) <= 1
  /\ timers \subseteq {Closure(fileData, settings)}
  /\ fileData = NoImage => timers = {}

\* C23 witness: the settings were changed before the timer of the upload
\* expired (no render has started yet), and the one live timer is the one of
\* the changed settings.
C23_Witness ==
  /\ fileData # NoImage
  /\ Len(history) >= 1
  /\ settings # initialSettings(fileData)
  /\ nextRender = 1
  /\ timers = {Closure(fileData, settings)}

\* C24: the clamp to 1 applies to the render output only: every output that
\* is published has width >= 1 and height >= 1, and the completion of a
\* render leaves the stored settings (and past and future) as they are, so a
\* stored 0 stays 0.
C24_ClampOnlyOutput ==
  [][/\ resizedUrl' # NoUrl
          => (resizedUrl'.width >= 1 /\ resizedUrl'.height >= 1)
     /\ \A r \in loading, ctx \in BOOLEAN :
          resizeImgOnload(r, ctx)
            => UNCHANGED <<settings, history, future>>]_vars

\* C24 witness: the published output is the render of the current image in
\* percent mode at a percentage that rounds the width to 0; the output is 1
\* wide and the stored width is still the natural width.
C24_Witness ==
  /\ fileData # NoImage
  /\ settings.unit = "percent"
  /\ Round(fileData.width * settings.percentage, 100) = 0
  /\ resizedUrl = DataUrl(fileData, settings)
  /\ resizedUrl.width = 1
  /\ settings.width = fileData.width

\* C25: setAspectLock(b) pushes the prior settings onto past, clears future
\* and changes the maintainAspectRatio flag only (width, height, unit and
\* percentage stay); the flag acts at the next setWidth or setHeight: with
\* the lock off these leave the other dimension as it is.
C25_SetAspectLock ==
  [][/\ \A b \in BOOLEAN :
          handleRatioChange(b)
            => /\ history' = Append(history, settings)
               /\ future' = <<>>
               /\ settings'.maintainAspectRatio = b
               /\ settings'.width = settings.width
               /\ settings'.height = settings.height
               /\ settings'.unit = settings.unit
               /\ settings'.percentage = settings.percentage
     /\ \A w \in DimInputs :
          (fileData # NoImage /\ ~settings.maintainAspectRatio /\ updateWidth(w))
            => settings'.height = settings.height
     /\ \A h \in DimInputs :
          (fileData # NoImage /\ ~settings.maintainAspectRatio /\ updateHeight(h))
            => settings'.width = settings.width]_vars

\* C25 witness: the size of a loaded image was edited and then the lock was
\* switched: the top of past is the current settings but for the flag.
C25_Witness ==
  /\ fileData # NoImage
  /\ Len(history) = 2
  /\ history[1].width # history[2].width
  /\ history[2].maintainAspectRatio # settings.maintainAspectRatio
  /\ settings = [history[2] EXCEPT !.maintainAspectRatio = settings.maintainAspectRatio]
  /\ future = <<>>

\* C26: output implies image: in every reachable state a render output is
\* published only while an image is loaded (so a render in flight at reset
\* does not publish after it).
C26_OutputImpliesImage == (resizedUrl # NoUrl) => (fileData # NoImage)

\* C27: reset is final for earlier uploads: in the session of SpecReset, once
\* reset has been called (events >= 2) an image is loaded only if it comes
\* from the upload initiated after the reset (id 2), and while no image is
\* loaded the settings are the defaults.
C27_ResetFinal ==
  events >= 2
    => /\ fileData # NoImage => fileData.id >= 2
       /\ fileData = NoImage => settings = DefaultSettings

\* C28: displayed size equals rendered size: the size of every output that a
\* render publishes is the size getCurrentDimensions shows for the image and
\* settings of that render.
C28_DisplayedIsRendered ==
  [][\A r \in loading :
       resizeImgOnload(r, TRUE)
         => <<resizedUrl'.width, resizedUrl'.height>>
              = getCurrentDimensions(r.fileData, r.settings)]_vars

\* C29: a positive locked edit always renders: with an image loaded and the
\* lock on, setWidth(w) with w > 0 and setHeight(h) with h > 0 leave both
\* stored dimensions >= 1 and the debounced render of the new settings is
\* scheduled.
C29_PositiveLockedEditRenders ==
  [][/\ \A w \in SizeInputs :
          (/\ fileData # NoImage
           /\ settings.maintainAspectRatio
           /\ Coerce(w) > 0
           /\ updateWidth(w))
            => /\ settings'.width >= 1
               /\ settings'.height >= 1
               /\ Closure(fileData', settings') \in timers'
     /\ \A h \in SizeInputs :
          (/\ fileData # NoImage
           /\ settings.maintainAspectRatio
           /\ Coerce(h) > 0
           /\ updateHeight(h))
            => /\ settings'.width >= 1
               /\ settings'.height >= 1
               /\ Closure(fileData', settings') \in timers']_vars

\* C30: history size is conserved by undo and redo: an undo with a non-empty
\* past makes past one shorter and future one longer, a redo with a
\* non-empty future does the reverse, so |past| + |future| is unchanged by
\* both, and neither changes the image.
C30_HistorySizeConserved ==
  [][/\ (Len(history) > 0 /\ handleUndo)
          => /\ Len(history') = Len(history) - 1
             /\ Len(future') = Len(future) + 1
     /\ (Len(future) > 0 /\ handleRedo)
          => /\ Len(history') = Len(history) + 1
             /\ Len(future') = Len(future) - 1
     /\ (handleUndo \/ handleRedo)
          => /\ Len(history') + Len(future') = Len(history) + Len(future)
             /\ fileData' = fileData]_vars

\* C30 witness: after two pushing edits of a loaded image and one undo, one
\* snapshot is on each stack.
C30_Witness ==
  /\ fileData # NoImage
  /\ Len(history) = 1
  /\ Len(future) = 1
  /\ Head(future) # settings
  /\ history[1] # settings
====
